---- MODULE Spec2Model ----
(***************************************************************************)
(* Model of kraftkit's cmdfactory option composition                       *)
(* (src/cmdfactory/options.go): a CliOptions context is filled by an       *)
(* ordered pass of CliOption steps, each either storing an explicit value  *)
(* or synthesising a default from the fields already present.              *)
(***************************************************************************)
EXTENDS Naturals, Sequences, FiniteSets, TLC

VARIABLES
    copts,      \* the CliOptions context the steps mutate
    last,       \* the last step: its name, argument, environment reads, factory call
    err,        \* the error returned by the last step (NoErr: nil)
    status,     \* the pass: "running", "failed" (a step returned an error), "done"
    provided    \* history of a tracked pass: the fields a default step was
                \* applied for with no explicit step unsetting them since

vars == <<copts, last, err, status, provided>>

----------------------------------------------------------------------------
(* Bounds *)

\* Number of distinct caller-supplied handles per explicit step.
NumHandles == 1

----------------------------------------------------------------------------
(* Values *)

\* A nil pointer / nil interface.
Nil == [kind |-> "nil"]

\* A nil error.
NoErr == <<>>

\* fmt.Errorf("cannot access config manager"), fmt.Errorf("cannot access IO streams")
ErrNoConfigManager == <<"cannot access config manager">>
ErrNoIOStreams == <<"cannot access IO streams">>

\* Errors the external factories can report.
ErrLoader == <<"config: cannot read config file">>
ErrHTTPFactory == <<"httpclient: cannot dial unix socket">>

\* An error wrapped with context, fmt.Errorf("<aspect>: %w", e).
WrapErr(aspect, e) == <<aspect>> \o e

\* The fields of CliOptions.
Fields == {"ioStreams", "logger", "configManager", "packageManager",
           "pluginManager", "httpClient"}

\* The configuration record steps read through copts.configManager.Config.
LogTypes == {"quiet", "basic", "fancy", "json"}
LogLevels == {"debug", "info", "verbose"}
Pagers == {"", "cfgpager"}
Sockets == {"", "/tmp/x.sock"}
PluginPaths == {"/plugins/a", "/plugins/b"}

MkConfig(typ, lvl, ts, np, pager, sock, plugins) ==
    [LogType |-> typ, LogLevel |-> lvl, LogTimestamps |-> ts, NoPrompt |-> np,
     Pager |-> pager, HTTPUnixSocket |-> sock, PathsPlugins |-> plugins]

\* The configuration the default config file gives.
DefaultConfig == MkConfig("fancy", "info", FALSE, FALSE, "", "", "/plugins/a")

\* Each step reads one group of fields: the streams step NoPrompt and Pager,
\* the HTTP client step HTTPUnixSocket, the plugin manager step PathsPlugins.
\* Configs holds every combination of values within each group; the socket
\* and the plugin path vary along with the two fields of the streams group.
Configs ==
    { [DefaultConfig EXCEPT
         !.NoPrompt = np, !.Pager = pager,
         !.HTTPUnixSocket = IF np THEN "/tmp/x.sock" ELSE "",
         !.PathsPlugins = IF pager = "" THEN "/plugins/a" ELSE "/plugins/b"] :
        np \in BOOLEAN, pager \in Pagers }

ConfigManagerOf(c) == [kind |-> "ConfigManager", Config |-> c]
ConfigManagers == { ConfigManagerOf(c) : c \in Configs }

\* The empty configuration: every field at its zero value.
EmptyConfig == MkConfig("", "", FALSE, FALSE, "", "", "")

\* Configurations that vary the group of fields the logger step reads: the
\* style tag (the four tags, an unknown one, none), the level name (known,
\* unknown, none) and the timestamp flag.
LogConfigs ==
    { [DefaultConfig EXCEPT !.LogType = typ, !.LogLevel = lvl,
                            !.LogTimestamps = ts] :
        typ \in LogTypes \cup {"loud", ""}, lvl \in LogLevels \cup {""},
        ts \in BOOLEAN }
    \cup {EmptyConfig}
LogConfigManagers == { ConfigManagerOf(c) : c \in LogConfigs }

\* Caller-supplied handles.
GivenIOStreams ==
    { [kind |-> "IOStreams", Out |-> <<"buffer", i>>, neverPrompt |-> FALSE, pager |-> ""] :
        i \in 1..NumHandles }
GivenHTTPClients == { [kind |-> "Client", id |-> i] : i \in 1..NumHandles }
GivenPackageManagers == { [kind |-> "PackageManager", id |-> i] : i \in 1..NumHandles }
GivenPluginManagers == { [kind |-> "PluginManager", id |-> i] : i \in 1..NumHandles }

\* The process environment: the result of os.LookupEnv on one variable.
EnvUnset == [exists |-> FALSE, val |-> ""]
EnvSet(v) == [exists |-> TRUE, val |-> v]
KraftkitPagerEnvs == {EnvUnset, EnvSet(""), EnvSet("kkpager")}
PagerEnvs == {EnvUnset, EnvSet(""), EnvSet("envpager")}

\* os.Getenv: the value, "" when the variable is unset.
Getenv(e) == IF e.exists THEN e.val ELSE ""

\* What a step that reads no environment variable / calls no factory records.
NoEnv == [read |-> FALSE]
NoCall == [fn |-> "none"]

Step(name, arg, env, call) == [step |-> name, arg |-> arg, env |-> env, call |-> call]

----------------------------------------------------------------------------
(* External collaborators *)

\* iostreams.System(): the streams of the host terminal; its pager command
\* starts as the value of PAGER.
System(pagerEnv) ==
    [kind |-> "IOStreams", Out |-> <<"stdout">>, neverPrompt |-> FALSE,
     pager |-> Getenv(pagerEnv)]

SetNeverPrompt(io, v) == [io EXCEPT !.neverPrompt = v]
SetPager(io, cmd) == [io EXCEPT !.pager = cmd]

\* httpclient.NewHTTPClient(io, unixSocket, insecure): a client or an error.
NewClient == [kind |-> "Client", id |-> 0]
HTTPFactoryResults == {[client |-> NewClient, err |-> NoErr],
                       [client |-> Nil, err |-> ErrHTTPFactory]}

\* config.NewConfigManager(config.WithDefaultConfigFile()), then the command's
\* flags attributed to and parsed into its Config: a manager or an error.
LoaderResults == {[cfgm |-> cm, err |-> NoErr] : cm \in ConfigManagers}
                 \cup {[cfgm |-> Nil, err |-> ErrLoader]}

\* packmanager.NewUmbrellaManager()
UmbrellaManager == [kind |-> "UmbrellaManager"]

\* plugins.NewPluginManager(path, nil)
NewPluginManager(path) == [kind |-> "PluginManager", id |-> 0]

\* log.L, the process-wide default logger.
LogL == [kind |-> "Entry", Logger |-> [global |-> "log.L"]]

\* log.LoggerTypeFromString on the four style tags.
LoggerTypeFromString(name) ==
    CASE name = "quiet" -> "QUIET"
      [] name = "basic" -> "BASIC"
      [] name = "fancy" -> "FANCY"
      [] name = "json" -> "JSON"

\* The logger types log.LoggerTypeFromString may return for a tag: the tag's
\* own type, and for a tag outside the enumeration any of the four types or
\* a value that is none of them.
LoggerTypes == {"QUIET", "BASIC", "FANCY", "JSON"}
LoggerTypesFromString(name) ==
    IF name \in LogTypes THEN {LoggerTypeFromString(name)}
    ELSE LoggerTypes \cup {"NONE"}

\* log.Levels(): level name -> logrus level.
LevelNames == {"error", "info", "debug"}
Levels(name) ==
    CASE name = "error" -> "ErrorLevel"
      [] name = "info" -> "InfoLevel"
      [] name = "debug" -> "DebugLevel"

\* logrus.New(): text formatter, info level, output to stderr.
Formatter(type, full, disable, format) ==
    [type |-> type, FullTimestamp |-> full, DisableTimestamp |-> disable,
     TimestampFormat |-> format]
LogrusNew ==
    [Formatter |-> Formatter("logrus.TextFormatter", FALSE, FALSE, ""),
     Level |-> "InfoLevel", Out |-> <<"stderr">>]

\* logrus.NewEntry(logger)
NewEntry(logger) == [kind |-> "Entry", Logger |-> logger]

----------------------------------------------------------------------------
(* The steps: each is the closure a With... constructor returns *)

\* The formatter the switch of WithDefaultLogger selects.
LoggerFormatter(logger, typ, cfg) ==
    CASE typ = "QUIET" ->
           Formatter("logrus.TextFormatter", FALSE, FALSE, "")
      [] typ \in {"BASIC", "FANCY"} ->
           IF cfg.LogTimestamps
           THEN Formatter("log.TextFormatter", TRUE, FALSE, "")
           ELSE Formatter("log.TextFormatter", TRUE, TRUE, ">")
      [] typ = "JSON" ->
           IF cfg.LogTimestamps
           THEN Formatter("logrus.JSONFormatter", FALSE, FALSE, "")
           ELSE Formatter("logrus.JSONFormatter", FALSE, TRUE, "")
      [] OTHER -> logger.Formatter

\* The level WithDefaultLogger gives the logger.
LoggerLevel_NoFallback(cfg) ==
    IF cfg.LogLevel \in LevelNames THEN Levels(cfg.LogLevel) ELSE "PanicLevel"
LoggerLevel(cfg) ==
    IF cfg.LogLevel \in LevelNames THEN Levels(cfg.LogLevel) ELSE "InfoLevel"

\* The logger WithDefaultLogger stores when there is no config manager.
FallbackLogger_Unset == Nil
FallbackLogger == LogL

\* The output WithDefaultLogger gives the logger it builds.
LoggerOutput_Unbound(logger, c) == logger.Out
LoggerOutput(logger, c) ==
    IF c.ioStreams # Nil THEN c.ioStreams.Out ELSE logger.Out

WithDefaultLogger ==
    /\ err' = NoErr
    /\ IF copts.logger # Nil
       THEN /\ copts' = copts
            /\ last' = Step("WithDefaultLogger", Nil, NoEnv, NoCall)
       ELSE IF copts.configManager = Nil
       THEN /\ copts' = [copts EXCEPT !.logger = FallbackLogger]
            /\ last' = Step("WithDefaultLogger", Nil, NoEnv, NoCall)
       ELSE \E typ \in LoggerTypesFromString(copts.configManager.Config.LogType) :
            LET cfg == copts.configManager.Config
                l0 == LogrusNew
                l1 == [l0 EXCEPT !.Formatter = LoggerFormatter(l0, typ, cfg)]
                l2 == [l1 EXCEPT !.Level = LoggerLevel(cfg)]
                l3 == [l2 EXCEPT !.Out = LoggerOutput(l2, copts)]
            IN /\ copts' = [copts EXCEPT !.logger = NewEntry(l3)]
               /\ last' = Step("WithDefaultLogger", Nil, NoEnv,
                               [fn |-> "logrus.New", type |-> typ])

WithConfigManager(cfgm) ==
    /\ copts' = [copts EXCEPT !.configManager = cfgm]
    /\ err' = NoErr
    /\ last' = Step("WithConfigManager", cfgm, NoEnv, NoCall)

\* What a default step returns when its factory reports the error e.
FactoryError_Swallowed(e) == NoErr
FactoryError(e) == e

WithDefaultConfigManager_AssignFirst ==
    \E r \in LoaderResults :
        /\ last' = Step("WithDefaultConfigManager", Nil, NoEnv,
                        [fn |-> "config.NewConfigManager", cfgm |-> r.cfgm,
                         err |-> r.err])
        /\ copts' = [copts EXCEPT !.configManager = r.cfgm]
        /\ err' = IF r.err # NoErr THEN FactoryError(r.err) ELSE NoErr

WithDefaultConfigManager ==
    \E r \in LoaderResults :
        /\ last' = Step("WithDefaultConfigManager", Nil, NoEnv,
                        [fn |-> "config.NewConfigManager", cfgm |-> r.cfgm,
                         err |-> r.err])
        /\ IF r.err # NoErr
           THEN /\ err' = FactoryError(r.err)
                /\ copts' = copts
           ELSE /\ err' = NoErr
                /\ copts' = [copts EXCEPT !.configManager = r.cfgm]

WithIOStreams_RebindLogger(io) ==
    /\ copts' = IF copts.logger # Nil /\ copts.logger # LogL /\ io # Nil
                THEN [copts EXCEPT !.ioStreams = io,
                                   !.logger.Logger.Out = io.Out]
                ELSE [copts EXCEPT !.ioStreams = io]
    /\ err' = NoErr
    /\ last' = Step("WithIOStreams", io, NoEnv, NoCall)

WithIOStreams(io) ==
    /\ copts' = [copts EXCEPT !.ioStreams = io]
    /\ err' = NoErr
    /\ last' = Step("WithIOStreams", io, NoEnv, NoCall)

DefaultIOStreams_NeverPrompt(cfgm, kkPager, pagerEnv) ==
    LET io0 == System(pagerEnv)
        io1 == IF cfgm # Nil THEN SetNeverPrompt(io0, TRUE) ELSE io0
        io2 == IF cfgm # Nil /\ cfgm.Config.Pager # ""
               THEN SetPager(io1, cfgm.Config.Pager) ELSE io1
    IN IF kkPager.exists THEN SetPager(io2, kkPager.val) ELSE io2

DefaultIOStreams_ConfigOverEnv(cfgm, kkPager, pagerEnv) ==
    LET io0 == System(pagerEnv)
        io1 == IF cfgm # Nil /\ cfgm.Config.NoPrompt
               THEN SetNeverPrompt(io0, TRUE) ELSE io0
        io2 == IF kkPager.exists THEN SetPager(io1, kkPager.val) ELSE io1
    IN IF cfgm # Nil /\ cfgm.Config.Pager # ""
       THEN SetPager(io2, cfgm.Config.Pager) ELSE io2

DefaultIOStreams_SkipEmpty(cfgm, kkPager, pagerEnv) ==
    LET io0 == System(pagerEnv)
        io1 == IF cfgm # Nil /\ cfgm.Config.NoPrompt
               THEN SetNeverPrompt(io0, TRUE) ELSE io0
        io2 == IF cfgm # Nil /\ cfgm.Config.Pager # ""
               THEN SetPager(io1, cfgm.Config.Pager) ELSE io1
    IN IF Getenv(kkPager) # "" THEN SetPager(io2, kkPager.val) ELSE io2

\* The streams WithDefaultIOStreams constructs from the configuration manager
\* present (or Nil) and the environment.
DefaultIOStreams(cfgm, kkPager, pagerEnv) ==
    LET io0 == System(pagerEnv)
        io1 == IF cfgm # Nil /\ cfgm.Config.NoPrompt
               THEN SetNeverPrompt(io0, TRUE) ELSE io0
        io2 == IF cfgm # Nil /\ cfgm.Config.Pager # ""
               THEN SetPager(io1, cfgm.Config.Pager) ELSE io1
    IN IF kkPager.exists THEN SetPager(io2, kkPager.val) ELSE io2

WithDefaultIOStreams ==
    /\ err' = NoErr
    /\ IF copts.ioStreams # Nil
       THEN /\ copts' = copts
            /\ last' = Step("WithDefaultIOStreams", Nil, NoEnv, NoCall)
       ELSE \E kkPager \in KraftkitPagerEnvs, pagerEnv \in PagerEnvs :
            /\ copts' = [copts EXCEPT
                           !.ioStreams = DefaultIOStreams(copts.configManager,
                                                          kkPager, pagerEnv)]
            /\ last' = Step("WithDefaultIOStreams", Nil,
                            [read |-> TRUE, KRAFTKIT_PAGER |-> kkPager,
                             PAGER |-> pagerEnv],
                            [fn |-> "iostreams.System"])

WithHTTPClient_KeepFirst(httpClient) ==
    /\ copts' = IF copts.httpClient # Nil THEN copts
                ELSE [copts EXCEPT !.httpClient = httpClient]
    /\ err' = NoErr
    /\ last' = Step("WithHTTPClient", httpClient, NoEnv, NoCall)

WithHTTPClient(httpClient) ==
    /\ copts' = [copts EXCEPT !.httpClient = httpClient]
    /\ err' = NoErr
    /\ last' = Step("WithHTTPClient", httpClient, NoEnv, NoCall)

\* The dependency checks of WithDefaultHTTPClient: the error it returns
\* before calling the factory, NoErr when both dependencies are present.
HTTPClientMissing_IOStreamsFirst(c) ==
    IF c.ioStreams = Nil THEN ErrNoIOStreams
    ELSE IF c.configManager = Nil THEN ErrNoConfigManager
    ELSE NoErr
HTTPClientMissing(c) ==
    IF c.configManager = Nil THEN ErrNoConfigManager
    ELSE IF c.ioStreams = Nil THEN ErrNoIOStreams
    ELSE NoErr

\* The call WithDefaultHTTPClient makes to the client factory, with the
\* factory's result r.
NewHTTPClientCall_Secure(c, r) ==
    [fn |-> "httpclient.NewHTTPClient", io |-> c.ioStreams,
     unixSocket |-> c.configManager.Config.HTTPUnixSocket, insecure |-> FALSE,
     client |-> r.client, err |-> r.err]
NewHTTPClientCall(c, r) ==
    [fn |-> "httpclient.NewHTTPClient", io |-> c.ioStreams,
     unixSocket |-> c.configManager.Config.HTTPUnixSocket, insecure |-> TRUE,
     client |-> r.client, err |-> r.err]

WithDefaultHTTPClient_CheckFirst ==
    IF HTTPClientMissing(copts) # NoErr
    THEN /\ copts' = copts
         /\ err' = HTTPClientMissing(copts)
         /\ last' = Step("WithDefaultHTTPClient", Nil, NoEnv, NoCall)
    ELSE IF copts.httpClient # Nil
    THEN /\ copts' = copts
         /\ err' = NoErr
         /\ last' = Step("WithDefaultHTTPClient", Nil, NoEnv, NoCall)
    ELSE \E r \in HTTPFactoryResults :
         /\ last' = Step("WithDefaultHTTPClient", Nil, NoEnv,
                         NewHTTPClientCall(copts, r))
         /\ IF r.err # NoErr
            THEN /\ err' = FactoryError(r.err)
                 /\ copts' = copts
            ELSE /\ err' = NoErr
                 /\ copts' = [copts EXCEPT !.httpClient = r.client]

WithDefaultHTTPClient ==
    IF copts.httpClient # Nil
    THEN /\ copts' = copts
         /\ err' = NoErr
         /\ last' = Step("WithDefaultHTTPClient", Nil, NoEnv, NoCall)
    ELSE IF HTTPClientMissing(copts) # NoErr
    THEN /\ copts' = copts
         /\ err' = HTTPClientMissing(copts)
         /\ last' = Step("WithDefaultHTTPClient", Nil, NoEnv, NoCall)
    ELSE \E r \in HTTPFactoryResults :
         /\ last' = Step("WithDefaultHTTPClient", Nil, NoEnv,
                         NewHTTPClientCall(copts, r))
         /\ IF r.err # NoErr
            THEN /\ err' = FactoryError(r.err)
                 /\ copts' = copts
            ELSE /\ err' = NoErr
                 /\ copts' = [copts EXCEPT !.httpClient = r.client]

WithPackageManager(pm) ==
    /\ copts' = [copts EXCEPT !.packageManager = pm]
    /\ err' = NoErr
    /\ last' = Step("WithPackageManager", pm, NoEnv, NoCall)

WithDefaultPackageManager_NoGuard ==
    /\ err' = NoErr
    /\ copts' = [copts EXCEPT !.packageManager = UmbrellaManager]
    /\ last' = Step("WithDefaultPackageManager", Nil, NoEnv,
                    [fn |-> "packmanager.NewUmbrellaManager"])

WithDefaultPackageManager ==
    /\ err' = NoErr
    /\ IF copts.packageManager # Nil
       THEN /\ copts' = copts
            /\ last' = Step("WithDefaultPackageManager", Nil, NoEnv, NoCall)
       ELSE /\ copts' = [copts EXCEPT !.packageManager = UmbrellaManager]
            /\ last' = Step("WithDefaultPackageManager", Nil, NoEnv,
                            [fn |-> "packmanager.NewUmbrellaManager"])

WithPluginManager(pm) ==
    /\ copts' = [copts EXCEPT !.pluginManager = pm]
    /\ err' = NoErr
    /\ last' = Step("WithPluginManager", pm, NoEnv, NoCall)

\* The search path WithDefaultPluginManager hands to the plugin manager
\* constructor.
PluginSearchPath_Fixed(c) == DefaultConfig.PathsPlugins
PluginSearchPath(c) == c.configManager.Config.PathsPlugins

WithDefaultPluginManager_NoStore ==
    IF copts.pluginManager # Nil
    THEN /\ copts' = copts
         /\ err' = NoErr
         /\ last' = Step("WithDefaultPluginManager", Nil, NoEnv, NoCall)
    ELSE IF copts.configManager = Nil
    THEN /\ copts' = copts
         /\ err' = ErrNoConfigManager
         /\ last' = Step("WithDefaultPluginManager", Nil, NoEnv, NoCall)
    ELSE /\ copts' = copts
         /\ err' = NoErr
         /\ last' = Step("WithDefaultPluginManager", Nil, NoEnv,
                         [fn |-> "plugins.NewPluginManager",
                          path |-> PluginSearchPath(copts), extra |-> Nil])

WithDefaultPluginManager ==
    IF copts.pluginManager # Nil
    THEN /\ copts' = copts
         /\ err' = NoErr
         /\ last' = Step("WithDefaultPluginManager", Nil, NoEnv, NoCall)
    ELSE IF copts.configManager = Nil
    THEN /\ copts' = copts
         /\ err' = ErrNoConfigManager
         /\ last' = Step("WithDefaultPluginManager", Nil, NoEnv, NoCall)
    ELSE /\ copts' = [copts EXCEPT
                        !.pluginManager = NewPluginManager(PluginSearchPath(copts))]
         /\ err' = NoErr
         /\ last' = Step("WithDefaultPluginManager", Nil, NoEnv,
                         [fn |-> "plugins.NewPluginManager",
                          path |-> PluginSearchPath(copts), extra |-> Nil])

----------------------------------------------------------------------------
(* The composition pass *)

Apply_Continue(step) ==
    /\ status # "done"
    /\ step
    /\ status' = IF err' # NoErr THEN "failed" ELSE status
    /\ UNCHANGED provided

\* One iteration of the caller's loop over its ordered list of steps: the
\* next step runs on the context, and a returned error ends the pass.
Apply(step) ==
    /\ status = "running"
    /\ step
    /\ status' = IF err' # NoErr THEN "failed" ELSE "running"
    /\ UNCHANGED provided

\* The list is exhausted: the pass returns nil and hands the context on.
Finish ==
    /\ status = "running"
    /\ status' = "done"
    /\ UNCHANGED <<copts, last, err, provided>>

Init ==
    /\ copts = [f \in Fields |-> Nil]
    /\ last = Step("none", Nil, NoEnv, NoCall)
    /\ err = NoErr
    /\ status = "running"
    /\ provided = {}

Next ==
    \/ Apply(WithDefaultLogger)
    \/ \E cfgm \in ConfigManagers \cup {Nil} : Apply(WithConfigManager(cfgm))
    \/ Apply(WithDefaultConfigManager)
    \/ \E io \in GivenIOStreams \cup {Nil} : Apply(WithIOStreams(io))
    \/ Apply(WithDefaultIOStreams)
    \/ \E c \in GivenHTTPClients \cup {Nil} : Apply(WithHTTPClient(c))
    \/ Apply(WithDefaultHTTPClient)
    \/ \E pm \in GivenPackageManagers \cup {Nil} : Apply(WithPackageManager(pm))
    \/ Apply(WithDefaultPackageManager)
    \/ \E pm \in GivenPluginManagers \cup {Nil} : Apply(WithPluginManager(pm))
    \/ Apply(WithDefaultPluginManager)
    \/ Finish

Spec == Init /\ [][Next]_vars

\* Passes over the steps the logger step depends on (it reads the logger,
\* the config manager and the I/O streams), with config managers that vary
\* the log fields.
NextLog ==
    \/ Apply(WithDefaultLogger)
    \/ \E cfgm \in LogConfigManagers \cup {Nil} : Apply(WithConfigManager(cfgm))
    \/ \E io \in GivenIOStreams \cup {Nil} : Apply(WithIOStreams(io))
    \/ Apply(WithDefaultIOStreams)
    \/ Finish

SpecLog == Init /\ [][NextLog]_vars

----------------------------------------------------------------------------
(* Vocabulary of the properties.  A property of a step is an action formula  *)
(* over the transition the step makes: unprimed copts is the context the     *)
(* step found, primed copts, last, err and status are what it left.          *)

\* The last step applied was `name`.
Ran(name) == last.step = name

\* This transition applies the step `name`.
Takes(name) == status' # "done" /\ last'.step = name

\* The steps that construct a default only when their own field is unset.
GuardedDefaultSteps ==
    {"WithDefaultLogger", "WithDefaultIOStreams", "WithDefaultHTTPClient",
     "WithDefaultPackageManager", "WithDefaultPluginManager"}

\* The steps that store a value without looking at the field.
UnguardedSteps ==
    {"WithConfigManager", "WithDefaultConfigManager", "WithIOStreams",
     "WithHTTPClient", "WithPackageManager", "WithPluginManager"}

\* The step recorded in `l` called an external factory that reported an error.
FactoryFailedIn(l) ==
    /\ l.call.fn \in {"httpclient.NewHTTPClient", "config.NewConfigManager"}
    /\ l.call.err # NoErr

\* This transition applies a step whose factory reports an error.
FactoryFails == status' # "done" /\ FactoryFailedIn(last')

\* This transition applies WithDefaultIOStreams and constructs the streams.
ConstructsIOStreams == Takes("WithDefaultIOStreams") /\ last'.env.read

\* The pager the configuration present in the context asks for.
ConfigPager ==
    IF copts.configManager # Nil THEN copts.configManager.Config.Pager ELSE ""

\* The steps that store their argument.
ExplicitSteps ==
    {"WithConfigManager", "WithIOStreams", "WithHTTPClient",
     "WithPackageManager", "WithPluginManager"}

AllSteps == GuardedDefaultSteps \cup UnguardedSteps

\* The field of the context a step assigns to.
FieldOf(name) ==
    CASE name \in {"WithDefaultLogger"} -> "logger"
      [] name \in {"WithConfigManager", "WithDefaultConfigManager"} ->
           "configManager"
      [] name \in {"WithIOStreams", "WithDefaultIOStreams"} -> "ioStreams"
      [] name \in {"WithHTTPClient", "WithDefaultHTTPClient"} -> "httpClient"
      [] name \in {"WithPackageManager", "WithDefaultPackageManager"} ->
           "packageManager"
      [] name \in {"WithPluginManager", "WithDefaultPluginManager"} ->
           "pluginManager"

Populated(e) == e.exists /\ e.val # ""

----------------------------------------------------------------------------
(* C1 *)

\* C1 (as claimed): once a field of the context is set, no later step that
\* supplies or synthesises a value overwrites it: the first writer's value
\* stays.
C1_OnceSetNeverOverwritten ==
    [][(status' # "done"
          /\ (last'.step \in GuardedDefaultSteps \/ last'.arg # Nil)) =>
         \A f \in Fields : copts[f] # Nil => copts'[f] = copts[f]]_vars

\* C1 (amended): a guarded default step never overwrites a field that is
\* already set; only the explicit steps and the default config manager step
\* replace a set field.
C1_DefaultNeverOverwrites ==
    [][/\ (\E n \in GuardedDefaultSteps : Takes(n)) =>
            \A f \in Fields : copts[f] # Nil => copts'[f] = copts[f]
       /\ (\E f \in Fields : copts[f] # Nil /\ copts'[f] # copts[f]) =>
            \E n \in UnguardedSteps : Takes(n)]_vars

\* A default step ran on a context whose field a caller had supplied, and
\* the supplied value is still there.
C1_Witness ==
    /\ Ran("WithDefaultPackageManager")
    /\ copts.packageManager \in GivenPackageManagers
    /\ last.call = NoCall

----------------------------------------------------------------------------
(* C2 *)

\* C2 (as claimed): the pass fails only when a dependent default step runs
\* before its dependency is set, and then always fails with the error naming
\* that dependency.
C2_OrderingDecidesOutcome ==
    [][/\ status' = "failed" =>
            \/ Takes("WithDefaultHTTPClient")
                 /\ (copts.configManager = Nil \/ copts.ioStreams = Nil)
            \/ Takes("WithDefaultPluginManager") /\ copts.configManager = Nil
       /\ (Takes("WithDefaultHTTPClient") /\ copts.configManager = Nil) =>
            (status' = "failed" /\ err' = ErrNoConfigManager)
       /\ (Takes("WithDefaultHTTPClient") /\ copts.configManager # Nil
             /\ copts.ioStreams = Nil) =>
            (status' = "failed" /\ err' = ErrNoIOStreams)
       /\ (Takes("WithDefaultPluginManager") /\ copts.configManager = Nil) =>
            (status' = "failed" /\ err' = ErrNoConfigManager)]_vars

\* C2 (amended): the pass fails only when a dependent default step whose own
\* aspect is unset runs with a dependency absent, or when an external factory
\* reports an error; a dependent default step whose own aspect is unset and
\* whose dependency is absent always fails with the error naming it.
C2_OrderingAndFactoriesDecideOutcome ==
    [][/\ status' = "failed" =>
            \/ /\ Takes("WithDefaultHTTPClient")
               /\ copts.httpClient = Nil
               /\ (copts.configManager = Nil \/ copts.ioStreams = Nil)
            \/ /\ Takes("WithDefaultPluginManager")
               /\ copts.pluginManager = Nil
               /\ copts.configManager = Nil
            \/ FactoryFails
       /\ (Takes("WithDefaultHTTPClient") /\ copts.httpClient = Nil
             /\ copts.configManager = Nil) =>
            (status' = "failed" /\ err' = ErrNoConfigManager)
       /\ (Takes("WithDefaultHTTPClient") /\ copts.httpClient = Nil
             /\ copts.configManager # Nil /\ copts.ioStreams = Nil) =>
            (status' = "failed" /\ err' = ErrNoIOStreams)
       /\ (Takes("WithDefaultPluginManager") /\ copts.pluginManager = Nil
             /\ copts.configManager = Nil) =>
            (status' = "failed" /\ err' = ErrNoConfigManager)]_vars

\* The default HTTP client step ran after the config manager was set but
\* before any I/O streams were, and the pass failed naming the streams.
C2_Witness ==
    /\ Ran("WithDefaultHTTPClient")
    /\ copts.httpClient = Nil
    /\ copts.configManager # Nil
    /\ copts.ioStreams = Nil
    /\ status = "failed"
    /\ err = ErrNoIOStreams

----------------------------------------------------------------------------
(* C3 *)

\* C3: when a step fails the pass halts: the step's error is the pass's
\* error, the context is as the earlier steps left it, and no later step
\* runs.
C3_HaltOnFailure ==
    /\ [](status = "failed" <=> err # NoErr)
    /\ [][status' = "failed" => copts' = copts]_vars
    /\ [][status = "failed" => UNCHANGED vars]_vars

\* A pass failed after earlier steps had set fields, which are kept.
C3_Witness ==
    /\ status = "failed"
    /\ err = ErrNoConfigManager
    /\ copts.ioStreams # Nil
    /\ copts.packageManager # Nil

----------------------------------------------------------------------------
(* C4 *)

\* C4: an explicit step leaves exactly its argument in its field, and a
\* default step for an aspect does not change a value a caller supplied.
C4_ExplicitValueStands ==
    [][/\ Takes("WithIOStreams") => copts'.ioStreams = last'.arg
       /\ Takes("WithHTTPClient") => copts'.httpClient = last'.arg
       /\ Takes("WithPackageManager") => copts'.packageManager = last'.arg
       /\ Takes("WithPluginManager") => copts'.pluginManager = last'.arg
       /\ (Takes("WithDefaultIOStreams") /\ copts.ioStreams \in GivenIOStreams) =>
            copts'.ioStreams = copts.ioStreams
       /\ (Takes("WithDefaultHTTPClient")
             /\ copts.httpClient \in GivenHTTPClients) =>
            copts'.httpClient = copts.httpClient
       /\ (Takes("WithDefaultPackageManager")
             /\ copts.packageManager \in GivenPackageManagers) =>
            copts'.packageManager = copts.packageManager
       /\ (Takes("WithDefaultPluginManager")
             /\ copts.pluginManager \in GivenPluginManagers) =>
            copts'.pluginManager = copts.pluginManager]_vars

\* The default HTTP client step ran on a context holding a caller's client
\* and no config manager: the client stood and the default logic was skipped.
C4_Witness ==
    /\ Ran("WithDefaultHTTPClient")
    /\ copts.httpClient \in GivenHTTPClients
    /\ copts.configManager = Nil
    /\ err = NoErr

----------------------------------------------------------------------------
(* C5 *)

\* C5: the default HTTP client step, run with no client set and a dependency
\* absent, fails naming the config manager when that is absent and the I/O
\* streams when only they are, and leaves the client unset.
C5_MissingDependencyNamed ==
    [][(Takes("WithDefaultHTTPClient") /\ copts.httpClient = Nil
          /\ (copts.configManager = Nil \/ copts.ioStreams = Nil)) =>
         /\ status' = "failed"
         /\ err' = IF copts.configManager = Nil
                   THEN ErrNoConfigManager ELSE ErrNoIOStreams
         /\ copts'.httpClient = Nil]_vars

\* The step ran with both dependencies absent and named the config manager.
C5_Witness ==
    /\ Ran("WithDefaultHTTPClient")
    /\ copts.httpClient = Nil
    /\ copts.configManager = Nil
    /\ copts.ioStreams = Nil
    /\ err = ErrNoConfigManager

----------------------------------------------------------------------------
(* C6 *)

\* C6: the default plugin manager step, run with no plugin manager set, fails
\* with the missing config manager error when the config manager is absent,
\* and otherwise succeeds and stores the manager constructed from the
\* configured plugin search path.
C6_PluginManagerFromConfig ==
    [][(Takes("WithDefaultPluginManager") /\ copts.pluginManager = Nil) =>
         IF copts.configManager = Nil
         THEN /\ status' = "failed"
              /\ err' = ErrNoConfigManager
              /\ copts'.pluginManager = Nil
         ELSE /\ status' = "running"
              /\ err' = NoErr
              /\ last'.call = [fn |-> "plugins.NewPluginManager",
                               path |-> copts.configManager.Config.PathsPlugins,
                               extra |-> Nil]
              /\ copts'.pluginManager = NewPluginManager(last'.call.path)]_vars

\* The step built the manager from a search path other than the default one.
C6_Witness ==
    /\ Ran("WithDefaultPluginManager")
    /\ copts.configManager # Nil
    /\ copts.configManager.Config.PathsPlugins # DefaultConfig.PathsPlugins
    /\ last.call.fn = "plugins.NewPluginManager"
    /\ last.call.path = copts.configManager.Config.PathsPlugins
    /\ copts.pluginManager = NewPluginManager(last.call.path)

----------------------------------------------------------------------------
(* C7 *)

\* C7: the pager of the streams the default step constructs is the value of
\* KRAFTKIT_PAGER when that is populated; with it removed, the configuration
\* value; with that removed too, the value of PAGER; with that removed, none.
C7_PagerPrecedence ==
    [][ConstructsIOStreams =>
         LET kk == last'.env.KRAFTKIT_PAGER
             pg == last'.env.PAGER
             pager == copts'.ioStreams.pager
         IN /\ Populated(kk) => pager = kk.val
            /\ (~kk.exists /\ ConfigPager # "") => pager = ConfigPager
            /\ (~kk.exists /\ ConfigPager = "" /\ Populated(pg)) => pager = pg.val
            /\ (~kk.exists /\ ConfigPager = "" /\ ~pg.exists) => pager = ""]_vars

\* All three sources were populated and the dedicated variable won.
C7_Witness ==
    /\ Ran("WithDefaultIOStreams")
    /\ last.env.read
    /\ Populated(last.env.KRAFTKIT_PAGER)
    /\ ConfigPager # ""
    /\ Populated(last.env.PAGER)
    /\ copts.ioStreams.pager = last.env.KRAFTKIT_PAGER.val

----------------------------------------------------------------------------
(* C8 *)

\* C8 (as claimed): a lower-precedence pager source applies whenever every
\* higher-precedence source is absent or empty.
C8_EmptySourcesSkipped ==
    [][ConstructsIOStreams =>
         LET kk == Getenv(last'.env.KRAFTKIT_PAGER)
             pg == Getenv(last'.env.PAGER)
         IN copts'.ioStreams.pager =
              IF kk # "" THEN kk
              ELSE IF ConfigPager # "" THEN ConfigPager ELSE pg]_vars

\* C8 (amended): a lower-precedence pager source applies whenever every
\* higher-precedence source is absent (KRAFTKIT_PAGER undefined, the
\* configuration pager empty or no config manager); a KRAFTKIT_PAGER that is
\* defined but empty overrides the lower sources and leaves no pager.
C8_DefinedEmptyOverrides ==
    [][ConstructsIOStreams =>
         LET kk == last'.env.KRAFTKIT_PAGER
             pg == Getenv(last'.env.PAGER)
         IN copts'.ioStreams.pager =
              IF kk.exists THEN kk.val
              ELSE IF ConfigPager # "" THEN ConfigPager ELSE pg]_vars

\* KRAFTKIT_PAGER was defined but empty, the configuration named a pager, and
\* the streams were left without one.
C8_Witness ==
    /\ Ran("WithDefaultIOStreams")
    /\ last.env.read
    /\ last.env.KRAFTKIT_PAGER = EnvSet("")
    /\ ConfigPager = "cfgpager"
    /\ copts.ioStreams.pager = ""

----------------------------------------------------------------------------
(* C9 *)

\* C9 (as claimed): when the factory of a default step fails, the step
\* returns the factory's error wrapped with the aspect name, the pass aborts
\* and the step's field is left unset.
C9_FactoryErrorWrapped ==
    [][FactoryFails =>
         /\ status' = "failed"
         /\ (Takes("WithDefaultHTTPClient") =>
               err' = WrapErr("http client", last'.call.err)
               /\ copts'.httpClient = Nil)
         /\ (Takes("WithDefaultConfigManager") =>
               err' = WrapErr("config manager", last'.call.err)
               /\ copts'.configManager = Nil)]_vars

\* C9 (amended): when the factory of a default step fails, the step returns
\* the factory's error unchanged, the pass aborts and the step's field is left
\* as it was before the step: unset for the HTTP client, and whatever it held
\* for the config manager.
C9_FactoryErrorVerbatim ==
    [][FactoryFails =>
         /\ status' = "failed"
         /\ err' = last'.call.err
         /\ copts' = copts
         /\ Takes("WithDefaultHTTPClient") => copts'.httpClient = Nil]_vars

\* The HTTP client factory failed and the pass aborted with its error.
C9_Witness ==
    /\ Ran("WithDefaultHTTPClient")
    /\ FactoryFailedIn(last)
    /\ status = "failed"
    /\ err = ErrHTTPFactory
    /\ copts.httpClient = Nil

----------------------------------------------------------------------------
(* C10 *)

\* C10: with the config manager and the I/O streams present and no HTTP
\* client set, the default HTTP client step calls the client factory with
\* those streams, the configured Unix-socket path and insecure = true, and
\* stores the client the factory returns when it succeeds.
C10_FactoryCall ==
    [][(Takes("WithDefaultHTTPClient") /\ copts.httpClient = Nil
          /\ copts.configManager # Nil /\ copts.ioStreams # Nil) =>
         /\ last'.call.fn = "httpclient.NewHTTPClient"
         /\ last'.call.io = copts.ioStreams
         /\ last'.call.unixSocket = copts.configManager.Config.HTTPUnixSocket
         /\ last'.call.insecure = TRUE
         /\ last'.call.err = NoErr =>
              /\ err' = NoErr
              /\ last'.call.client # Nil
              /\ copts'.httpClient = last'.call.client]_vars

\* The factory was called with the socket path /tmp/x.sock and its client
\* was stored.
C10_Witness ==
    /\ Ran("WithDefaultHTTPClient")
    /\ last.call.fn = "httpclient.NewHTTPClient"
    /\ last.call.unixSocket = "/tmp/x.sock"
    /\ last.call.io = copts.ioStreams
    /\ last.call.insecure
    /\ copts.httpClient = NewClient

----------------------------------------------------------------------------
(* C11 *)

\* This transition applies WithDefaultLogger and builds a logger.
BuildsLogger == Takes("WithDefaultLogger") /\ last'.call.fn = "logrus.New"

\* The last step applied was WithDefaultLogger and it built a logger.
BuiltLogger == Ran("WithDefaultLogger") /\ last.call.fn = "logrus.New"

\* C11: the default logger step never fails and leaves the logger set: with
\* the logger unset and no config manager it stores the process-wide logger
\* log.L, with a config manager it stores a logger it has just built.
C11_DefaultLoggerNeverFails ==
    [][Takes("WithDefaultLogger") =>
         /\ err' = NoErr
         /\ status' = "running"
         /\ copts'.logger # Nil
         /\ (copts.logger = Nil /\ copts.configManager = Nil) =>
              /\ copts'.logger = LogL
              /\ last'.call = NoCall
         /\ (copts.logger = Nil /\ copts.configManager # Nil) =>
              /\ last'.call.fn = "logrus.New"
              /\ copts'.logger.kind = "Entry"
              /\ copts'.logger # LogL]_vars

\* The step ran without a config manager and stored log.L.
C11_Witness ==
    /\ Ran("WithDefaultLogger")
    /\ copts.logger = LogL
    /\ copts.configManager = Nil
    /\ err = NoErr
    /\ status = "running"

----------------------------------------------------------------------------
(* C12 *)

\* C12: the formatter of a logger built from the configuration never
\* includes a timestamp for the style quiet; for basic, fancy and json it
\* shows the timestamp when the timestamp flag is true, and otherwise the
\* placeholder marker (basic, fancy) or nothing (json).
C12_FormatterTimestamps ==
    [][BuildsLogger =>
         LET f == copts'.logger.Logger.Formatter
             ts == copts.configManager.Config.LogTimestamps
             typ == last'.call.type
         IN /\ typ = "QUIET" => f.DisableTimestamp
            /\ typ \in {"BASIC", "FANCY"} =>
                 IF ts THEN ~f.DisableTimestamp
                 ELSE f.DisableTimestamp /\ f.TimestampFormat = ">"
            /\ typ = "JSON" => (f.DisableTimestamp <=> ~ts)]_vars

----------------------------------------------------------------------------
(* C13 *)

\* C13: a logger built from the configuration has the level the fixed
\* enumeration maps the configured name to, and the level info when the name
\* is unknown or absent; the step does not fail on such a name.
C13_LevelOrInfo ==
    [][BuildsLogger =>
         LET name == copts.configManager.Config.LogLevel
             level == copts'.logger.Logger.Level
         IN /\ err' = NoErr
            /\ name = "error" => level = "ErrorLevel"
            /\ name = "info" => level = "InfoLevel"
            /\ name = "debug" => level = "DebugLevel"
            /\ name \notin LevelNames => level = "InfoLevel"]_vars

\* A logger was built from a configuration whose level name is unknown.
C13_Witness ==
    /\ BuiltLogger
    /\ copts.configManager.Config.LogLevel = "verbose"
    /\ copts.logger.Logger.Level = "InfoLevel"
    /\ err = NoErr

----------------------------------------------------------------------------
(* C14 *)

\* C14: a logger built from the configuration while I/O streams are present
\* writes to the streams' output channel; with the empty configuration and
\* streams a caller supplied, the step succeeds and the logger writes to the
\* supplied streams' output at level info.
C14_LoggerOutputBound ==
    [][BuildsLogger =>
         /\ copts.ioStreams # Nil =>
              copts'.logger.Logger.Out = copts.ioStreams.Out
         /\ (copts.configManager.Config = EmptyConfig
               /\ copts.ioStreams \in GivenIOStreams) =>
              /\ err' = NoErr
              /\ status' = "running"
              /\ copts'.logger.Logger.Out = copts.ioStreams.Out
              /\ copts'.logger.Logger.Level = "InfoLevel"]_vars

\* The empty-configuration scenario: supplied streams, then a built logger.
C14_Witness ==
    /\ BuiltLogger
    /\ copts.configManager.Config = EmptyConfig
    /\ copts.ioStreams \in GivenIOStreams
    /\ copts.logger.Logger.Out = copts.ioStreams.Out
    /\ copts.logger.Logger.Level = "InfoLevel"
    /\ err = NoErr

----------------------------------------------------------------------------
(* C15 *)

----------------------------------------------------------------------------
(* C16 *)

\* C16: on streams the default I/O streams step constructs with a config
\* manager present, prompting is disabled exactly when the no-prompt flag is
\* true and a non-empty configured pager is set (it stands unless
\* KRAFTKIT_PAGER is defined); with no config manager prompting stays
\* enabled and the pager comes from the environment alone.
C16_StreamsFromConfig ==
    [][ConstructsIOStreams =>
         LET io == copts'.ioStreams
             cfgm == copts.configManager
             kkPager == last'.env.KRAFTKIT_PAGER
             pagerEnv == last'.env.PAGER
         IN /\ cfgm # Nil =>
                 /\ io.neverPrompt <=> cfgm.Config.NoPrompt
                 /\ (cfgm.Config.Pager # "" /\ ~kkPager.exists) =>
                      io.pager = cfgm.Config.Pager
            /\ cfgm = Nil =>
                 /\ ~io.neverPrompt
                 /\ io.pager = IF kkPager.exists THEN kkPager.val
                               ELSE Getenv(pagerEnv)]_vars

\* Streams were constructed from a configuration with the no-prompt flag
\* and a pager.
C16_Witness ==
    /\ Ran("WithDefaultIOStreams")
    /\ last.env.read
    /\ copts.configManager # Nil
    /\ copts.configManager.Config.NoPrompt
    /\ copts.configManager.Config.Pager # ""
    /\ copts.ioStreams.neverPrompt
    /\ copts.ioStreams.pager = copts.configManager.Config.Pager

----------------------------------------------------------------------------
(* C17 *)

\* The default steps that can return an error.
FailingDefaultSteps ==
    {"WithDefaultHTTPClient", "WithDefaultPluginManager",
     "WithDefaultConfigManager"}

\* C17: a default step that returns an error (a missing dependency or a
\* failing factory for the HTTP client, no config manager for the plugin
\* manager, a failing loader for the config manager) leaves every field of
\* the context as it was.
C17_FailedStepChangesNothing ==
    [][\A name \in FailingDefaultSteps :
         (Takes(name) /\ err' # NoErr) =>
            /\ copts' = copts
            /\ status' = "failed"]_vars

\* The loader failed in a context that already had a config manager.
C17_Witness ==
    /\ Ran("WithDefaultConfigManager")
    /\ FactoryFailedIn(last)
    /\ err # NoErr
    /\ copts.configManager # Nil
    /\ copts.ioStreams # Nil

----------------------------------------------------------------------------
(* C18 *)

\* C18: each of the five guarded default steps, applied when its field is
\* already set, succeeds without looking at its dependencies, calls no
\* factory, reads no environment variable and changes no field; a guarded
\* default step that succeeds leaves its field set, so applying it a second
\* time is such a no-op.
C18_SetFieldMakesNoOp ==
    [][\A name \in GuardedDefaultSteps :
         /\ (Takes(name) /\ copts[FieldOf(name)] # Nil) =>
              /\ err' = NoErr
              /\ status' = "running"
              /\ copts' = copts
              /\ last'.call = NoCall
              /\ last'.env = NoEnv
         /\ (Takes(name) /\ err' = NoErr) => copts'[FieldOf(name)] # Nil]_vars

\* The default HTTP client step succeeded as a no-op with both of its
\* dependencies missing.
C18_Witness ==
    /\ Ran("WithDefaultHTTPClient")
    /\ copts.httpClient \in GivenHTTPClients
    /\ copts.configManager = Nil
    /\ copts.ioStreams = Nil
    /\ err = NoErr
    /\ last.call = NoCall

----------------------------------------------------------------------------
(* C19 *)

\* C19: every step writes only the field of its own aspect: an explicit
\* step never fails and stores its argument, a default step changes at most
\* its field, and no I/O streams or config manager step changes the logger.
C19_OwnFieldOnly ==
    [][\A name \in AllSteps :
         Takes(name) =>
            /\ \A f \in Fields \ {FieldOf(name)} : copts'[f] = copts[f]
            /\ name \in ExplicitSteps =>
                 /\ err' = NoErr
                 /\ copts'[FieldOf(name)] = last'.arg
            /\ FieldOf(name) \in {"ioStreams", "configManager"} =>
                 copts'.logger = copts.logger]_vars

\* A pass ended with streams set and a built logger still writing to the
\* output it had before the streams were set.
C19_Witness ==
    /\ status = "done"
    /\ copts.ioStreams # Nil
    /\ copts.logger # Nil
    /\ copts.logger # LogL
    /\ copts.logger.Logger.Out = LogrusNew.Out

----------------------------------------------------------------------------
(* C20 *)

\* The history after a successful step: a default step adds its field, an
\* explicit step given nil removes its field, a config manager step given a
\* manager adds the config manager, and any other step leaves it as it was.
ProvidedAfter(l) ==
    IF l.step \in GuardedDefaultSteps \cup {"WithDefaultConfigManager"}
    THEN provided \cup {FieldOf(l.step)}
    ELSE IF l.arg = Nil THEN provided \ {FieldOf(l.step)}
    ELSE IF l.step = "WithConfigManager" THEN provided \cup {"configManager"}
    ELSE provided

\* One iteration of the caller's loop, recording the history.
ApplyTracked(step) ==
    /\ status = "running"
    /\ step
    /\ status' = IF err' # NoErr THEN "failed" ELSE "running"
    /\ provided' = IF err' # NoErr THEN provided ELSE ProvidedAfter(last')

NextPass ==
    \/ ApplyTracked(WithDefaultLogger)
    \/ \E cfgm \in ConfigManagers \cup {Nil} :
          ApplyTracked(WithConfigManager(cfgm))
    \/ ApplyTracked(WithDefaultConfigManager)
    \/ \E io \in GivenIOStreams \cup {Nil} : ApplyTracked(WithIOStreams(io))
    \/ ApplyTracked(WithDefaultIOStreams)
    \/ \E c \in GivenHTTPClients \cup {Nil} : ApplyTracked(WithHTTPClient(c))
    \/ ApplyTracked(WithDefaultHTTPClient)
    \/ \E pm \in GivenPackageManagers \cup {Nil} :
          ApplyTracked(WithPackageManager(pm))
    \/ ApplyTracked(WithDefaultPackageManager)
    \/ \E pm \in GivenPluginManagers \cup {Nil} :
          ApplyTracked(WithPluginManager(pm))
    \/ ApplyTracked(WithDefaultPluginManager)
    \/ Finish

SpecPass == Init /\ [][NextPass]_vars

\* C20: after a pass that ends successfully, every aspect whose default
\* step the pass contains, with no explicit step supplying nil for it
\* afterwards, is set; so a successful pass with a config manager step and
\* all five default steps ends with all six fields set.
C20_DefaultedAspectsSet ==
    status = "done" => \A f \in provided : copts[f] # Nil

\* A pass of a config manager step and the five default steps, streams
\* before HTTP client, ended successfully with every field built by its
\* default step.
C20_Witness ==
    /\ status = "done"
    /\ provided = Fields
    /\ copts.configManager # Nil
    /\ copts.logger # Nil /\ copts.logger # LogL
    /\ copts.ioStreams.Out = System(EnvUnset).Out
    /\ copts.httpClient = NewClient
    /\ copts.packageManager = UmbrellaManager
    /\ copts.pluginManager = NewPluginManager(PluginSearchPath(copts))

====
